---- MODULE Spec2Model ----
(***************************************************************************)
(* The replanning supervisor of demos/lqrrt_ros/nodes/lqrrt_node.py        *)
(* (class LQRRT_Node) as a state machine.                                  *)
(*                                                                         *)
(* rospy runs every callback on a thread of its own, so the node is five   *)
(* concurrent threads over the shared fields of the one LQRRT_Node object: *)
(*   - the action server's execute thread, which runs move_cb (and inside  *)
(*     it tree_chain), one request at a time;                              *)
(*   - the timer thread of action_check;                                   *)
(*   - the timer thread of publish_ref;                                    *)
(*   - the subscriber thread of ogrid_cb (which runs reevaluate_plan);     *)
(*   - the subscriber thread of odom_cb.                                   *)
(* A step of the model is one statement, or one group of adjacent          *)
(* statements, of one thread; the lines are in the name or comment of each *)
(* action.  The python sequences, trees and interpolators are kept as the  *)
(* identity of the plan segment they belong to; poses are cells of a line. *)
(*                                                                         *)
(* The source is Python 2 (xrange): None compares less than every number   *)
(* and not greater than any, which NoTime = -1 reproduces.                 *)
(***************************************************************************)
EXTENDS Integers, FiniteSets, Sequences, TLC

(* ------------------------------ bounds -------------------------------- *)

\* poses are the cells 0..MaxPose of a line
MaxPose == 1
\* Move requests the client sends
MaxMoves == 2
\* clean planner updates (plan segments produced)
MaxPlans == 2
\* the grid given to is_feasible
GridRows == 2
GridCols == 2
\* the side of the image given to boundary_analysis
ImgSize == 5
\* the pushes select_exploration counts
MaxNpush == 6
\* the cells of the corridor reevaluate_plan is applied in
CorridorCells == 4
\* the time up to which reevaluate_plan is applied
MaxNow == 6
\* coordinates of footprint points, in half pixels: pixels -2 .. 2
Coords == {-5, -3, -1, 1, 3, 4}

(* ------------------------- values and parameters ----------------------- *)

Poses == 0..MaxPose
\* None, for a pose-valued field (state, goal, next_seed)
NoPose == -1
\* a sample of a plan segment, whose samples are not kept
OnPlan == MaxPose + 1
\* None, for a time-valued field (next_runtime, time_till_issue)
NoTime == -1
\* np.inf, the sentinel of reevaluate_plan
Inf == 1000

\* params.dt, in half time steps (so that time_till_issue/2 stays an integer)
dt == 2
\* params.basic_duration
basic_duration == 4
\* the horizon of a long plan, above basic_duration
Tlong == 8
\* params.free_radius and params.real_tol, on the scale of Dist
free_radius == 1
real_tol == 1
\* params.stuck_threshold
stuck_threshold == 1
\* the offsets i at which reevaluate_plan may find the first infeasible sample:
\* one within 2*basic_duration of now and one beyond
IssueOffsets == {1, 5}

Behaviors == {"car", "boat", "escape"}
MoveTypes == {"hold", "drive", "skid", "circle"}
\* move_type strings a client may send; "fly" stands for every unknown one
RequestTypes == MoveTypes \cup {"fly"}

\* a reference-valued field: None, a plan segment (id >= 1), the rotation
\* pre-move (id = its pose), the hold closure over self.goal, the constant
\* closure of the success epilogue (id = the pose copied), the zero effort
NoRef == [k |-> "none", id |-> 0]
PlanRef(n) == [k |-> "plan", id |-> n]
RotRef(p) == [k |-> "rot", id |-> p]
HoldRef == [k |-> "goal", id |-> 0]
ConstRef(p) == [k |-> "const", id |-> p]
ZeroEff == [k |-> "zero", id |-> 0]

NoReq == [move_type |-> "none", goal |-> NoPose]
\* the goal of a Move request; hold replaces it by the state
GoalPoses == {MaxPose}
Requests == [move_type : RequestTypes, goal : GoalPoses]

\* what a clean update_plan leaves in the planner: horizon T, whether the
\* tree is small (size <= stuck_threshold), plan_reached_goal
PlannerOutputs ==
  { [T |-> dt, small |-> FALSE, reached |-> FALSE],
    [T |-> dt, small |-> FALSE, reached |-> TRUE],
    [T |-> Tlong, small |-> TRUE, reached |-> FALSE],
    [T |-> Tlong, small |-> FALSE, reached |-> FALSE] }
NoOutput == [T |-> dt, small |-> FALSE, reached |-> FALSE]

Abs(n) == IF n < 0 THEN -n ELSE n
\* npl.norm(a[:2] - b[:2]): cells are two units apart
Dist(a, b) == 2 * Abs(a - b)
\* erf(xgoal, x)
erf(xgoal, x) == 2 * (xgoal - x)
\* np.all(np.abs(erf(goal, state)) <= params.real_tol)
WithinTol(g, s) == Abs(erf(g, s)) <= real_tol
\* next_runtime *= params.fudge_factor  (fudge_factor = 3/4)
Fudge(T) == (3 * T) \div 4

VARIABLES
  \* LQRRT_Node.reset: internal plan
  goal, get_ref, get_eff, x_seq, u_seq, tree,
  \* behavior control; expl stands for (goal_bias, sample_space, guide)
  move_type, behavior, enroute_behavior, expl, stuck, stuck_count,
  \* planning control
  last_update_time, next_runtime, next_seed, time_till_issue, preempted,
  \* one-time initializations (self.tracking, which only the feedback of
  \* action_check reads, is not kept)
  busy, done, state, ogrid,
  \* the killed flag of each behavior's planner
  killed,
  \* actionlib.SimpleActionServer: status of the current goal, preempt
  \* flag, pending goal, result reported for the current goal
  as_active, as_preempt_request, as_next, result,
  \* environment
  shutdown, nsent, nplans,
  \* position of each thread
  mv_pc, ac_pc, pr_pc,
  \* locals of the execute thread: the request msg of move_cb, clean_update,
  \* the planner being updated, the planner's output, x_seq_rot[-1], whether
  \* this request called tree_chain, whether the heading h_goal of line 213
  \* was outside the cone of line 216.  A local holds None once it is dead.
  msg, clean_update, upd, out, x_seq_rot, called_tc, h_goal,
  \* history of tree_chain: the time_till_issue the tests of lines 302-319
  \* found, that is, the branch the iteration in progress took
  tti_seen,
  \* local of publish_ref: the last_update_time read at line 837
  p_T,
  \* a function of the node applied on its own: the fields of the object it
  \* reads and writes, the arguments of the call, what the call returned
  obj, args, ret

plan == <<goal, get_ref, get_eff, x_seq, u_seq, tree>>
control == <<move_type, behavior, enroute_behavior, expl, stuck, stuck_count>>
planning == <<last_update_time, next_runtime, next_seed, time_till_issue, preempted>>
onetime == <<busy, done, state, ogrid>>
server == <<as_active, as_preempt_request, as_next, result>>
environment == <<shutdown, nsent, nplans>>
pcs == <<mv_pc, ac_pc, pr_pc>>
mvlocals ==
  <<msg, clean_update, upd, out, x_seq_rot, called_tc, h_goal, tti_seen>>
harness == <<obj, args, ret>>
locals == <<mvlocals, p_T, harness>>
vars == <<plan, control, planning, onetime, killed, server, environment, pcs, locals>>

\* nothing returned yet, and the value v returned
NoRet == <<>>
Returned(v) == <<v>>

\* the state after LQRRT_Node.__init__ (lines 49-55 and reset()), but for
\* the four fields select_behavior reads
InitOther ==
  /\ get_ref = NoRef /\ get_eff = NoRef
  /\ x_seq = NoRef /\ u_seq = NoRef /\ tree = NoRef
  /\ behavior = "none" /\ enroute_behavior = "none"
  /\ expl = "none" /\ stuck_count = 0
  /\ last_update_time = NoRef /\ next_runtime = NoTime
  /\ time_till_issue = NoTime /\ preempted = FALSE
  /\ busy = FALSE /\ done = TRUE /\ state = NoPose
  /\ ogrid = "none"
  /\ killed = [b \in Behaviors |-> FALSE]
  /\ as_active = FALSE /\ as_preempt_request = FALSE
  /\ as_next = NoReq /\ msg = NoReq /\ result = "none"
  /\ shutdown = FALSE /\ nsent = 0 /\ nplans = 0
  /\ mv_pc = "idle" /\ ac_pc = "idle" /\ pr_pc = "idle"
  /\ clean_update = "None" /\ upd = "none" /\ out = NoOutput
  /\ x_seq_rot = NoPose /\ called_tc = FALSE /\ h_goal = "None"
  /\ tti_seen = NoTime
  /\ p_T = NoRef

\* lines 103, 111, 115, 123 of reset()
InitSelected ==
  /\ goal = NoPose /\ move_type = "none" /\ stuck = FALSE
  /\ next_seed = NoPose

\* the state after LQRRT_Node.__init__; no function is applied on its own
Init ==
  /\ InitOther /\ InitSelected
  /\ obj = NoRet /\ args = NoRet /\ ret = NoRet

(* ----------------------- client and action server ---------------------- *)

\* a new goal reaches the SimpleActionServer: it becomes the pending goal and,
\* if a goal is active, a preempt of the active goal is requested
SendGoal ==
  /\ ~shutdown /\ nsent < MaxMoves
  /\ \E r \in Requests : as_next' = r
  /\ nsent' = nsent + 1
  /\ as_preempt_request' = (as_preempt_request \/ as_active)
  /\ UNCHANGED <<plan, control, planning, onetime, killed, as_active,
                 result, shutdown, nplans, pcs, locals>>

\* the client cancels the active goal
CancelGoal ==
  /\ ~shutdown /\ as_active /\ ~as_preempt_request
  /\ as_preempt_request' = TRUE
  /\ UNCHANGED <<plan, control, planning, onetime, killed, as_active, as_next,
                 result, environment, pcs, locals>>

\* rospy.is_shutdown() becomes true
Shutdown ==
  /\ ~shutdown
  /\ shutdown' = TRUE
  /\ UNCHANGED <<plan, control, planning, onetime, killed, server, nsent,
                 nplans, pcs, locals>>

\* the execute thread accepts the pending goal and calls execute_cb = move_cb
ExecuteLoopAccept ==
  /\ mv_pc = "idle" /\ ~shutdown /\ ~as_active /\ as_next # NoReq
  /\ msg' = as_next /\ as_next' = NoReq
  /\ as_active' = TRUE /\ as_preempt_request' = FALSE
  /\ result' = "none"
  /\ called_tc' = FALSE
  /\ mv_pc' = "m139"
  /\ UNCHANGED <<plan, control, planning, onetime, killed, environment,
                 ac_pc, pr_pc, clean_update, upd, out, x_seq_rot, h_goal, tti_seen, p_T, harness>>

\* set_aborted(MoveResult(code)) / set_succeeded / set_preempted, then
\* self.done = True and return
Finish(r) ==
  /\ result' = r /\ as_active' = FALSE
  /\ done' = TRUE
  /\ mv_pc' = "idle"
  /\ UNCHANGED <<as_preempt_request, as_next>>

\* an exception leaves move_cb: the execute thread catches it and aborts the
\* goal; neither done nor busy is restored
Raise ==
  /\ result' = "exception" /\ as_active' = FALSE
  /\ mv_pc' = "idle"
  /\ UNCHANGED <<as_preempt_request, as_next>>

(* ------------------------------- reset -------------------------------- *)

\* reset(), lines 103-118: internal plan and behavior control
ResetPlanAndControl ==
  /\ goal' = NoPose /\ get_ref' = NoRef /\ get_eff' = NoRef
  /\ x_seq' = NoRef /\ u_seq' = NoRef /\ tree' = NoRef
  /\ move_type' = "none" /\ behavior' = "none" /\ enroute_behavior' = "none"
  /\ expl' = "none" /\ stuck' = FALSE /\ stuck_count' = 0

\* reset(), lines 121-129: planning control, then unkill every planner
ResetPlanningAndUnkill ==
  /\ last_update_time' = NoRef /\ next_runtime' = NoTime
  /\ next_seed' = NoPose /\ time_till_issue' = NoTime
  /\ preempted' = FALSE
  /\ killed' = [b \in Behaviors |-> FALSE]

(* ------------------------------ move_cb ------------------------------- *)

\* line 139
MoveCbBegin ==
  /\ mv_pc = "m139"
  /\ done' = FALSE
  /\ mv_pc' = "m142"
  /\ UNCHANGED <<plan, control, planning, busy, state, ogrid, killed,
                 server, environment, ac_pc, pr_pc, locals>>

\* lines 142-146: no odometry yet
MoveCbNoOdom ==
  /\ mv_pc = "m142" /\ state = NoPose
  /\ msg' = NoReq
  /\ Finish("odom")
  /\ UNCHANGED <<plan, control, planning, busy, state, ogrid, killed,
                 environment, ac_pc, pr_pc, clean_update, upd, out,
                 x_seq_rot, h_goal, tti_seen, called_tc, p_T, harness>>

\* lines 147-151: odometry present, first half of reset()
MoveCbReset ==
  /\ mv_pc = "m142" /\ state # NoPose
  /\ ResetPlanAndControl
  /\ mv_pc' = "m121"
  /\ UNCHANGED <<planning, onetime, killed, server, environment,
                 ac_pc, pr_pc, locals>>

\* line 151, second half of reset()
MoveCbResetPlanning ==
  /\ mv_pc = "m121"
  /\ ResetPlanningAndUnkill
  /\ mv_pc' = "m154"
  /\ UNCHANGED <<plan, control, onetime, server, environment,
                 ac_pc, pr_pc, locals>>

\* line 157: the move types move_cb accepts
MoveTypeSupported(mt) == mt \in {"hold", "drive", "skid", "circle"}

\* lines 154-159: set_goal(msg.goal) and a supported move_type
MoveCbPrepare ==
  /\ mv_pc = "m154" /\ MoveTypeSupported(msg.move_type)
  /\ goal' = msg.goal
  /\ move_type' = msg.move_type
  /\ mv_pc' = "m191"
  /\ UNCHANGED <<get_ref, get_eff, x_seq, u_seq, tree, behavior,
                 enroute_behavior, expl, stuck, stuck_count, planning, onetime,
                 killed, server, environment, ac_pc, pr_pc, locals>>

\* lines 154, 160-164: set_goal(msg.goal) and an unsupported move_type
MoveCbBadType ==
  /\ mv_pc = "m154" /\ ~MoveTypeSupported(msg.move_type)
  /\ goal' = msg.goal
  /\ msg' = NoReq
  /\ Finish("move_type")
  /\ UNCHANGED <<get_ref, get_eff, x_seq, u_seq, tree, control, planning,
                 busy, state, ogrid, killed, environment,
                 ac_pc, pr_pc, clean_update, upd, out, x_seq_rot, h_goal, tti_seen,
                 called_tc, p_T, harness>>

\* lines 191-193: station keeping, set_goal(self.state) and the update time
MoveCbHold ==
  /\ mv_pc = "m191" /\ move_type = "hold"
  /\ goal' = state
  /\ last_update_time' = [k |-> "hold", id |-> 0]
  /\ msg' = NoReq
  /\ mv_pc' = "m194"
  /\ UNCHANGED <<get_ref, get_eff, x_seq, u_seq, tree, control, next_runtime,
                 next_seed, time_till_issue, preempted, onetime, killed,
                 server, environment, ac_pc, pr_pc, clean_update, upd, out,
                 x_seq_rot, h_goal, tti_seen, called_tc, p_T, harness>>

\* line 194: get_ref = lambda t: self.goal
MoveCbHoldRef ==
  /\ mv_pc = "m194"
  /\ get_ref' = HoldRef
  /\ mv_pc' = "m195"
  /\ UNCHANGED <<goal, get_eff, x_seq, u_seq, tree, control, planning, onetime,
                 killed, server, environment, ac_pc, pr_pc, locals>>

\* lines 195-199: zero effort, set_succeeded, done
MoveCbHoldDone ==
  /\ mv_pc = "m195"
  /\ get_eff' = ZeroEff
  /\ Finish("succeeded")
  /\ UNCHANGED <<goal, get_ref, x_seq, u_seq, tree, control, planning,
                 busy, state, ogrid, killed, environment,
                 ac_pc, pr_pc, locals>>

\* lines 202-206: circle moves are not implemented
MoveCbCircle ==
  /\ mv_pc = "m191" /\ move_type = "circle"
  /\ msg' = NoReq
  /\ Finish("patience")
  /\ UNCHANGED <<plan, control, planning, busy, state, ogrid, killed,
                 environment, ac_pc, pr_pc, clean_update, upd, out,
                 x_seq_rot, h_goal, tti_seen, called_tc, p_T, harness>>

\* a test of line 216 that leaves the distance out
NeedsRotationAnywhere(headingOff) == headingOff

\* line 216: the rotation pre-move is needed; the heading is not part of a
\* cell, so the heading test is an input of the step
NeedsRotation(headingOff) == headingOff /\ Dist(goal, state) > free_radius

\* lines 209-227: drive with a rotation pre-move.  rotation_move returns the
\* whole sweep (success), a shortened sweep, or (FPR*len < 1) an empty one;
\* the last two need a grid, is_feasible being true without one
MoveCbDriveRotate ==
  /\ mv_pc = "m191" /\ move_type = "drive" /\ goal # NoPose
  /\ NeedsRotation(TRUE)
  /\ h_goal' = "outside"
  /\ \E outcome \in {"whole", "short", "empty"} :
       /\ outcome # "whole" => ogrid # "none"
       /\ move_type' = IF outcome = "whole" THEN move_type ELSE "skid"
       /\ x_seq_rot' = IF outcome = "empty" THEN NoPose ELSE state
  /\ last_update_time' = [k |-> "rot", id |-> 0]
  /\ msg' = NoReq
  /\ mv_pc' = "m228"
  /\ UNCHANGED <<plan, behavior, enroute_behavior, expl, stuck, stuck_count,
                 next_runtime, next_seed, time_till_issue, preempted, onetime,
                 killed, server, environment, ac_pc, pr_pc,
                 clean_update, upd, out, called_tc,
                 tti_seen, p_T, harness>>

\* lines 228-236: interpolate the rotation and seed the chain at its end
MoveCbRotationRef ==
  /\ mv_pc = "m228" /\ x_seq_rot # NoPose
  /\ get_ref' = RotRef(x_seq_rot) /\ get_eff' = RotRef(x_seq_rot)
  /\ \E T_rot \in {basic_duration, Tlong} : next_runtime' = T_rot
  /\ next_seed' = x_seq_rot
  /\ x_seq_rot' = NoPose
  /\ mv_pc' = "m253"
  /\ UNCHANGED <<goal, x_seq, u_seq, tree, control, last_update_time,
                 time_till_issue, preempted, onetime, killed, server,
                 environment, ac_pc, pr_pc, msg, clean_update, upd,
                 out, called_tc, h_goal, tti_seen, p_T, harness>>

\* line 236 with an empty x_seq_rot: x_seq_rot[-1] raises IndexError
MoveCbRotationEmpty ==
  /\ mv_pc = "m228" /\ x_seq_rot = NoPose
  /\ Raise
  /\ UNCHANGED <<plan, control, planning, onetime, killed, environment,
                 ac_pc, pr_pc, locals>>

\* lines 209-216, 238-245: drive without rotation, or skid
MoveCbSeedAtState ==
  /\ mv_pc = "m191"
  /\ \/ move_type = "skid" /\ UNCHANGED h_goal
     \/ /\ move_type = "drive" /\ goal # NoPose
        /\ \E headingOff \in BOOLEAN :
             /\ ~NeedsRotation(headingOff)
             /\ h_goal' = IF headingOff THEN "outside" ELSE "within"
  /\ next_runtime' = basic_duration
  /\ next_seed' = state
  /\ msg' = NoReq
  /\ mv_pc' = "m253"
  /\ UNCHANGED <<plan, control, last_update_time, time_till_issue, preempted,
                 onetime, killed, server, environment, ac_pc, pr_pc,
                 clean_update, upd, out, x_seq_rot, called_tc, tti_seen, p_T,
                 harness>>

\* line 212 with self.goal None (TypeError), or lines 191-249 with a
\* move_type that matches no branch (the assert of line 248 fails)
MoveCbIndeterminate ==
  /\ mv_pc = "m191"
  /\ \/ move_type = "none"
     \/ move_type = "drive" /\ goal = NoPose
  /\ msg' = NoReq
  /\ Raise
  /\ UNCHANGED <<plan, control, planning, onetime, killed, environment,
                 ac_pc, pr_pc, clean_update, upd, out, x_seq_rot, h_goal, tti_seen,
                 called_tc, p_T, harness>>

(* ------------------------ the chaining loop --------------------------- *)

\* lines 253-254: the loop goes on and calls tree_chain
MoveCbChain ==
  /\ mv_pc = "m253" /\ ~shutdown
  /\ called_tc' = TRUE
  /\ h_goal' = "None"
  /\ tti_seen' = NoTime
  /\ mv_pc' = "t295"
  /\ UNCHANGED <<plan, control, planning, onetime, killed, server, environment,
                 ac_pc, pr_pc, msg, clean_update, upd, out, x_seq_rot,
                 p_T, harness>>

\* line 253: rospy.is_shutdown() ends the loop, control falls to line 278
MoveCbLoopShutdown ==
  /\ mv_pc = "m253" /\ shutdown
  /\ h_goal' = "None"
  /\ mv_pc' = "m278"
  /\ UNCHANGED <<plan, control, planning, onetime, killed, server, environment,
                 ac_pc, pr_pc, msg, clean_update, upd, out, x_seq_rot,
                 called_tc, tti_seen, p_T, harness>>

\* line 258: the feedback of the iteration is printed
PrintsFeedback == clean_update = "True" /\ ~stuck /\ ~preempted

\* lines 260-264 on fields that are None: AttributeError or TypeError
FeedbackRaises ==
  /\ PrintsFeedback
  /\ \/ enroute_behavior = "none" \/ expl = "none"
     \/ tree = NoRef \/ next_runtime = NoTime

\* line 267: the action goal is complete
GoalComplete == WithinTol(goal, state)

\* lines 258-268: break
MoveCbReached ==
  /\ mv_pc = "m258" /\ ~FeedbackRaises /\ goal # NoPose /\ GoalComplete
  /\ clean_update' = "None"
  /\ mv_pc' = "m278"
  /\ UNCHANGED <<plan, control, planning, onetime, killed, server, environment,
                 ac_pc, pr_pc, msg, upd, out, x_seq_rot, h_goal, tti_seen, called_tc, p_T, harness>>

\* lines 258-275: abrupt termination
MoveCbPreempted ==
  /\ mv_pc = "m258" /\ ~FeedbackRaises /\ goal # NoPose /\ ~GoalComplete
  /\ preempted
  /\ clean_update' = "None"
  /\ Finish("preempted")
  /\ UNCHANGED <<plan, control, planning, busy, state, ogrid, killed,
                 environment, ac_pc, pr_pc, msg, upd, out, x_seq_rot, h_goal, tti_seen,
                 called_tc, p_T, harness>>

\* lines 258-271: neither, loop again
MoveCbContinue ==
  /\ mv_pc = "m258" /\ ~FeedbackRaises /\ goal # NoPose /\ ~GoalComplete
  /\ ~preempted
  /\ clean_update' = "None"
  /\ mv_pc' = "m253"
  /\ UNCHANGED <<plan, control, planning, onetime, killed, server, environment,
                 ac_pc, pr_pc, msg, upd, out, x_seq_rot, h_goal, tti_seen, called_tc, p_T, harness>>

\* lines 260-264 raise, or line 267 with self.goal None: np.subtract raises
\* TypeError
MoveCbCheckRaise ==
  /\ mv_pc = "m258" /\ (FeedbackRaises \/ goal = NoPose)
  /\ clean_update' = "None"
  /\ Raise
  /\ UNCHANGED <<plan, control, planning, onetime, killed, environment,
                 ac_pc, pr_pc, msg, upd, out, x_seq_rot, h_goal, tti_seen, called_tc, p_T, harness>>

\* lines 278-279: remain = np.copy(self.goal); get_ref = lambda t: remain
MoveCbRemain ==
  /\ mv_pc = "m278"
  /\ get_ref' = ConstRef(goal)
  /\ mv_pc' = "m280"
  /\ UNCHANGED <<goal, get_eff, x_seq, u_seq, tree, control, planning, onetime,
                 killed, server, environment, ac_pc, pr_pc, locals>>

\* lines 280-284: zero effort, set_succeeded, done
MoveCbSucceed ==
  /\ mv_pc = "m280"
  /\ get_eff' = ZeroEff
  /\ Finish("succeeded")
  /\ UNCHANGED <<goal, get_ref, x_seq, u_seq, tree, control, planning,
                 busy, state, ogrid, killed, environment,
                 ac_pc, pr_pc, locals>>

(* ----------------------------- tree_chain ----------------------------- *)

\* a guard that never sees an update in progress
InUpdateNever(b) == FALSE

\* line 295: the re-entrancy guard
InUpdate(b) == b

\* lines 295-296: busy, return (None) at once
TreeChainBusy ==
  /\ mv_pc = "t295" /\ InUpdate(busy)
  /\ clean_update' = "None"
  /\ mv_pc' = "m258"
  /\ UNCHANGED <<plan, control, planning, onetime, killed, server, environment,
                 ac_pc, pr_pc, msg, upd, out, x_seq_rot, h_goal, tti_seen, called_tc,
                 p_T, harness>>

\* line 299: take busy
TreeChainLock ==
  /\ mv_pc = "t295" /\ ~InUpdate(busy)
  /\ busy' = TRUE
  /\ mv_pc' = "t302"
  /\ UNCHANGED <<plan, control, planning, done, state, ogrid, killed,
                 server, environment, ac_pc, pr_pc, locals>>

\* the pose get_ref(t) returns
GetRef(r) ==
  CASE r.k = "plan" -> OnPlan
    [] r.k = "goal" -> goal
    [] OTHER -> r.id

\* line 303: the runtime left is too short to plan in
TooShort ==
  next_runtime < basic_duration /\ last_update_time # NoRef /\ ~stuck

\* line 312
DistantIssue == time_till_issue > 2 * basic_duration

\* whether lines 302-326 evaluate self.get_ref(...)
AdvancesSeed == IF time_till_issue = NoTime THEN TooShort ELSE TRUE

\* a test of line 306 that never leaves the runtime to the planner
PlannerChoosesNever(s) == FALSE

\* line 306: stuck, the planner chooses its own runtime
PlannerChooses(s) == s

\* line 320: half the time left before the issue
EscapeRuntime(t) == t \div 2

\* lines 302-307: no issue; runtime and seed
TreeChainNoIssue ==
  /\ mv_pc = "t302" /\ time_till_issue = NoTime
  /\ tti_seen' = time_till_issue
  /\ IF TooShort
       THEN /\ get_ref # NoRef
            /\ next_runtime' = basic_duration
            /\ next_seed' = GetRef(get_ref)
       ELSE /\ next_runtime' = IF PlannerChooses(stuck) THEN NoTime
                                                        ELSE next_runtime
            /\ UNCHANGED next_seed
  /\ mv_pc' = "t308"
  /\ UNCHANGED <<plan, control, last_update_time, time_till_issue, preempted,
                 onetime, killed, server, environment, ac_pc, pr_pc,
                 msg, clean_update, upd, out, x_seq_rot, called_tc, h_goal,
                 p_T, harness>>

\* lines 312-314: distant issue; runtime and seed
TreeChainDistantIssue ==
  /\ mv_pc = "t302" /\ time_till_issue # NoTime /\ DistantIssue
  /\ tti_seen' = time_till_issue
  /\ get_ref # NoRef /\ last_update_time # NoRef
  /\ next_runtime' = basic_duration
  /\ next_seed' = GetRef(get_ref)
  /\ mv_pc' = "t308"
  /\ UNCHANGED <<plan, control, last_update_time, time_till_issue, preempted,
                 onetime, killed, server, environment, ac_pc, pr_pc,
                 msg, clean_update, upd, out, x_seq_rot, called_tc, h_goal,
                 p_T, harness>>

\* lines 319-325: immediate issue; escape with half the time left
TreeChainImmediateIssue ==
  /\ mv_pc = "t302" /\ time_till_issue # NoTime /\ ~DistantIssue
  /\ tti_seen' = time_till_issue
  /\ get_ref # NoRef /\ last_update_time # NoRef
  /\ next_runtime' = EscapeRuntime(time_till_issue)
  /\ next_seed' = GetRef(get_ref)
  /\ behavior' = "escape"
  /\ IF goal # NoPose /\ GetRef(get_ref) # NoPose
       THEN /\ expl' = "immediate"
            /\ mv_pc' = "t332"
            /\ UNCHANGED server
       ELSE \* line 324: escape.gen_ss on None raises TypeError
            /\ UNCHANGED expl
            /\ Raise
  /\ UNCHANGED <<plan, move_type, enroute_behavior, stuck, stuck_count,
                 last_update_time, time_till_issue, preempted, onetime, killed,
                 environment, ac_pc, pr_pc, msg, clean_update, upd, out,
                 x_seq_rot, called_tc, h_goal,
                 p_T, harness>>

\* lines 305, 314, 321 with self.get_ref or self.last_update_time None:
\* TypeError
TreeChainSeedRaise ==
  /\ mv_pc = "t302" /\ AdvancesSeed
  /\ get_ref = NoRef \/ last_update_time = NoRef
  /\ Raise
  /\ UNCHANGED <<plan, control, planning, onetime, killed, environment,
                 ac_pc, pr_pc, locals>>

\* line 400: the values npl.norm(goal[:2] - next_seed[:2]) may have
SeedDists ==
  IF next_seed = OnPlan THEN {Dist(goal, x) : x \in Poses}
  ELSE {Dist(goal, next_seed)}

\* select_behavior without the test of line 396
SelectUnstuck(dist) ==
  IF goal = NoPose \/ next_seed = NoPose THEN "TypeError"
  ELSE IF move_type = "drive"
         THEN (IF dist < free_radius THEN "boat" ELSE "car")
  ELSE IF move_type = "skid" THEN "boat"
  ELSE "ValueError"

\* select_behavior, lines 396-415, for dist as computed at line 400;
\* "TypeError" for self.goal[:2] or self.next_seed[:2] on None, "ValueError"
\* for line 415
select_behavior(dist) ==
  IF stuck THEN "escape"
  ELSE IF goal = NoPose \/ next_seed = NoPose THEN "TypeError"
  ELSE IF move_type = "drive"
         THEN (IF dist < free_radius THEN "boat" ELSE "car")
  ELSE IF move_type = "skid" THEN "boat"
  ELSE "ValueError"

\* select_exploration, lines 424-572, for self.behavior = b: the triples it
\* may return, by the branch that builds them; the empty set when it raises
\* (lines 426, 561 on None; lines 562-569, where ss is bound only by the
\* grid branch)
select_exploration(b) ==
  IF b = "escape"
    THEN (IF goal = NoPose \/ next_seed = NoPose THEN {} ELSE {"escape"})
  ELSE IF ogrid # "none" /\ next_seed # NoPose
    THEN {"grid"}
  ELSE {}

\* lines 308-309, 315-316: behavior and exploration chosen
TreeChainSelect ==
  /\ mv_pc = "t308"
  /\ \E dist \in SeedDists :
       /\ select_behavior(dist) \in Behaviors
       /\ behavior' = select_behavior(dist)
       /\ \E e \in select_exploration(select_behavior(dist)) : expl' = e
  /\ mv_pc' = "t332"
  /\ UNCHANGED <<plan, move_type, enroute_behavior, stuck, stuck_count,
                 planning, onetime, killed, server, environment,
                 ac_pc, pr_pc, locals>>

\* lines 308-309, 315-316: select_behavior raises, or select_exploration
\* raises after self.behavior was assigned
TreeChainSelectRaise ==
  /\ mv_pc = "t308"
  /\ \E dist \in SeedDists :
       IF select_behavior(dist) \in Behaviors
         THEN /\ select_exploration(select_behavior(dist)) = {}
              /\ behavior' = select_behavior(dist)
         ELSE UNCHANGED behavior
  /\ Raise
  /\ UNCHANGED <<plan, move_type, enroute_behavior, expl, stuck, stuck_count,
                 planning, onetime, killed, environment,
                 ac_pc, pr_pc, locals>>

\* line 332: update_plan is entered on the selected behavior's planner
TreeChainUpdatePlan ==
  /\ mv_pc = "t332" /\ behavior # "none"
  /\ upd' = behavior
  /\ mv_pc' = "t332r"
  /\ UNCHANGED <<plan, control, planning, onetime, killed, server, environment,
                 ac_pc, pr_pc, msg, clean_update, out, x_seq_rot, h_goal, tti_seen,
                 called_tc, p_T, harness>>

\* line 332 with self.behavior None: AttributeError
TreeChainUpdateRaise ==
  /\ mv_pc = "t332" /\ behavior = "none"
  /\ Raise
  /\ UNCHANGED <<plan, control, planning, onetime, killed, environment,
                 ac_pc, pr_pc, locals>>

\* the planner's last check of its killed flag: killed, update_plan returns
\* False
PlannerKilled ==
  /\ mv_pc = "t332r" /\ killed[upd]
  /\ clean_update' = "False"
  /\ upd' = "none"
  /\ mv_pc' = "t339"
  /\ UNCHANGED <<plan, control, planning, onetime, killed, server, environment,
                 ac_pc, pr_pc, msg, out, x_seq_rot, h_goal, tti_seen, called_tc, p_T, harness>>

\* the planner's last check of its killed flag: not killed, update_plan
\* returns True with a new plan segment
PlannerClean ==
  /\ mv_pc = "t332r" /\ ~killed[upd]
  /\ nplans < MaxPlans
  /\ nplans' = nplans + 1
  /\ \E o \in PlannerOutputs : out' = o
  /\ clean_update' = "True"
  /\ upd' = "none"
  /\ mv_pc' = "t339"
  /\ UNCHANGED <<plan, control, planning, onetime, killed, server, shutdown,
                 nsent, ac_pc, pr_pc, msg, x_seq_rot, h_goal, tti_seen, called_tc, p_T, harness>>

\* a test of line 339 that takes every return value for a clean update
UpdateFinishedAlways(c) == TRUE

\* line 339
UpdateFinishedProperly(c) == c = "True"

\* lines 342-343: the tree is oddly small and the goal still far
OddlySmall ==
  /\ out.small \/ out.T = dt
  /\ ~out.reached
  /\ Dist(goal, state) > free_radius

\* lines 339-355: clean update, the stuck counter
TreeChainStuck ==
  /\ mv_pc = "t339" /\ UpdateFinishedProperly(clean_update)
  /\ behavior # "none" /\ goal # NoPose
  /\ IF OddlySmall
       THEN /\ stuck' = (stuck_count + 1 > stuck_threshold)
            /\ stuck_count' = IF stuck_count + 1 > stuck_threshold
                                THEN 0 ELSE stuck_count + 1
       ELSE /\ stuck' = FALSE
            /\ stuck_count' = 0
  /\ mv_pc' = "t358"
  /\ UNCHANGED <<plan, move_type, behavior, enroute_behavior, expl, planning,
                 onetime, killed, server, environment, ac_pc, pr_pc,
                 locals>>

\* lines 358-360: x_seq, u_seq, tree of the new segment
TreeChainCashIn ==
  /\ mv_pc = "t358" /\ behavior # "none"
  /\ x_seq' = PlanRef(nplans) /\ u_seq' = PlanRef(nplans)
  /\ tree' = PlanRef(nplans)
  /\ mv_pc' = "t361"
  /\ UNCHANGED <<goal, get_ref, get_eff, control, planning, onetime, killed,
                 server, environment, ac_pc, pr_pc, locals>>

\* line 361
TreeChainUpdateTime ==
  /\ mv_pc = "t361"
  /\ last_update_time' = PlanRef(nplans)
  /\ mv_pc' = "t362"
  /\ UNCHANGED <<plan, control, next_runtime, next_seed, time_till_issue,
                 preempted, onetime, killed, server, environment,
                 ac_pc, pr_pc, locals>>

\* lines 362-369: interpolators, next runtime and seed, enroute behavior,
\* and the issue cleared
TreeChainCommit ==
  /\ mv_pc = "t362" /\ behavior # "none"
  /\ get_ref' = PlanRef(nplans) /\ get_eff' = PlanRef(nplans)
  /\ next_runtime' = IF out.T > basic_duration THEN Fudge(out.T) ELSE out.T
  /\ next_seed' = OnPlan
  /\ enroute_behavior' = behavior
  /\ time_till_issue' = NoTime
  /\ out' = NoOutput
  /\ tti_seen' = NoTime
  /\ mv_pc' = "t380"
  /\ UNCHANGED <<goal, x_seq, u_seq, tree, move_type, behavior, expl, stuck,
                 stuck_count, last_update_time, preempted, onetime, killed,
                 server, environment, ac_pc, pr_pc, msg, clean_update,
                 upd, x_seq_rot, h_goal, called_tc, p_T, harness>>

\* lines 342, 358, 362 with self.behavior None (AttributeError), line 343
\* with self.goal None (TypeError)
TreeChainCommitRaise ==
  /\ \/ mv_pc = "t339" /\ UpdateFinishedProperly(clean_update)
        /\ (behavior = "none" \/ goal = NoPose)
     \/ mv_pc \in {"t358", "t362"} /\ behavior = "none"
  /\ Raise
  /\ UNCHANGED <<plan, control, planning, onetime, killed, environment,
                 ac_pc, pr_pc, locals>>

\* lines 376-377: update cancelled
TreeChainCancelled ==
  /\ mv_pc = "t339" /\ ~UpdateFinishedProperly(clean_update)
  /\ tti_seen' = NoTime
  /\ mv_pc' = "t380"
  /\ UNCHANGED <<plan, control, planning, onetime, killed, server, environment,
                 ac_pc, pr_pc, msg, clean_update, upd, out, x_seq_rot,
                 called_tc, h_goal, p_T, harness>>

\* lines 380-381: unkill every planner
TreeChainUnkill ==
  /\ mv_pc = "t380"
  /\ killed' = [b \in Behaviors |-> FALSE]
  /\ mv_pc' = "t384"
  /\ UNCHANGED <<plan, control, planning, onetime, server, environment,
                 ac_pc, pr_pc, locals>>

\* lines 384-386: release busy and return clean_update
TreeChainReturn ==
  /\ mv_pc = "t384"
  /\ busy' = FALSE
  /\ mv_pc' = "m258"
  /\ UNCHANGED <<plan, control, planning, done, state, ogrid, killed,
                 server, environment, ac_pc, pr_pc, locals>>

(* ---------------------------- action_check ---------------------------- *)

\* line 669
PreemptWanted == as_preempt_request \/ (shutdown /\ busy)

\* line 672: the planners are killed and the end of move_cb awaited
KillAndWait(b) == b # "none"

\* lines 666-675: a preempt is wanted for the active goal; with a behavior
\* selected every planner is killed.  (The feedback branch, lines 682-688,
\* writes no field and is not a step.)
ActionCheckPreempt ==
  /\ ac_pc = "idle"
  /\ ~preempted /\ as_active
  /\ PreemptWanted
  /\ preempted' = TRUE
  /\ IF KillAndWait(behavior)
       THEN /\ killed' = [b \in Behaviors |-> TRUE]
            /\ ac_pc' = "a676"
       ELSE /\ UNCHANGED killed
            /\ ac_pc' = "a679"
  /\ UNCHANGED <<plan, control, last_update_time, next_runtime, next_seed,
                 time_till_issue, onetime, server, environment,
                 mv_pc, pr_pc, locals>>

\* lines 676-678: done has been seen true
ActionCheckDone ==
  /\ ac_pc = "a676" /\ done
  /\ ac_pc' = "a679"
  /\ UNCHANGED <<plan, control, planning, onetime, killed, server, environment,
                 mv_pc, pr_pc, locals>>

\* line 677: rospy.sleep raises ROSInterruptException once the node shuts
\* down, which ends the callback
ActionCheckInterrupted ==
  /\ ac_pc = "a676" /\ ~done /\ shutdown
  /\ ac_pc' = "idle"
  /\ UNCHANGED <<plan, control, planning, onetime, killed, server, environment,
                 mv_pc, pr_pc, locals>>

\* line 679, first half of reset()
ActionCheckReset ==
  /\ ac_pc = "a679"
  /\ ResetPlanAndControl
  /\ ac_pc' = "a121"
  /\ UNCHANGED <<planning, onetime, killed, server, environment,
                 mv_pc, pr_pc, locals>>

\* line 679, second half of reset(); return
ActionCheckResetPlanning ==
  /\ ac_pc = "a121"
  /\ ResetPlanningAndUnkill
  /\ ac_pc' = "idle"
  /\ UNCHANGED <<plan, control, onetime, server, environment,
                 mv_pc, pr_pc, locals>>

(* --------------------- ogrid_cb and reevaluate_plan -------------------- *)

\* lines 616-618 alone: no plan is committed
NoPlanToCheck == last_update_time = NoRef \/ x_seq = NoRef

\* lines 613-618: an issue is pending, or no plan is committed
NothingToCheck ==
  time_till_issue # NoTime \/ last_update_time = NoRef \/ x_seq = NoRef

\* lines 919-922, 613-618: the grid is stored; reevaluate_plan returns at once
OgridCbNoOp ==
  /\ ~shutdown
  /\ ogrid' = "grid"
  /\ NothingToCheck
  /\ UNCHANGED <<plan, control, planning, busy, done, state, killed,
                 server, environment, pcs, locals>>

\* lines 919-922, 621-633: the grid is stored; sample i of the rest of the
\* plan is the first infeasible one, every planner is killed
OgridCbIssue ==
  /\ ~shutdown
  /\ ogrid' = "grid"
  /\ ~NothingToCheck
  /\ \E i \in IssueOffsets : time_till_issue' = i * dt
  /\ killed' = [b \in Behaviors |-> TRUE]
  /\ UNCHANGED <<plan, control, last_update_time, next_runtime, next_seed,
                 preempted, busy, done, state, server, environment,
                 pcs, locals>>

\* lines 919-922, 621-655: the grid is stored; the plan is feasible, the
\* node is escaping and the straight line to the goal is clear
OgridCbClearPath ==
  /\ ~shutdown
  /\ ogrid' = "grid"
  /\ ~NothingToCheck
  /\ enroute_behavior = "escape"
  /\ time_till_issue' = Inf
  /\ move_type' = "drive"
  /\ killed' = [b \in Behaviors |-> TRUE]
  /\ stuck' = FALSE /\ stuck_count' = 0
  /\ UNCHANGED <<plan, behavior, enroute_behavior, expl, last_update_time,
                 next_runtime, next_seed, preempted, busy, done, state,
                 server, environment, pcs, locals>>

\* lines 919-922, 621-658: the grid is stored; no concerns
OgridCbNoConcerns ==
  /\ ~shutdown
  /\ ogrid' = "grid"
  /\ ~NothingToCheck
  /\ time_till_issue' = NoTime
  /\ UNCHANGED <<plan, control, last_update_time, next_runtime, next_seed,
                 preempted, busy, done, state, killed, server, environment,
                 pcs, locals>>

(* ------------------------------- odom_cb ------------------------------- *)

\* lines 933-940: the state is stored (and the tracking flag computed)
OdomCb ==
  /\ ~shutdown
  /\ \E s \in Poses : state' = s
  /\ UNCHANGED <<plan, control, planning, busy, done, ogrid, killed, server,
                 environment, pcs, locals>>

(* ----------------------------- publish_ref ----------------------------- *)

\* lines 833-838: a reference is installed; T is taken from last_update_time
PublishRefTime ==
  /\ pr_pc = "idle" /\ ~shutdown
  /\ get_ref # NoRef /\ last_update_time # NoRef
  /\ p_T' = last_update_time
  /\ pr_pc' = "p841"
  /\ UNCHANGED <<plan, control, planning, onetime, killed, server, environment,
                 mv_pc, ac_pc, mvlocals, harness>>

\* lines 841-845: get_ref(T) and get_eff(T) are published
PublishRef ==
  /\ pr_pc = "p841" /\ get_ref # NoRef
  /\ p_T' = NoRef
  /\ pr_pc' = "idle"
  /\ UNCHANGED <<plan, control, planning, onetime, killed, server, environment,
                 mv_pc, ac_pc, mvlocals, harness>>

\* line 837 with last_update_time None, or line 841 with get_ref None:
\* TypeError, which ends the timer's thread
PublishRefRaise ==
  /\ \/ pr_pc = "idle" /\ ~shutdown /\ get_ref # NoRef /\ last_update_time = NoRef
     \/ pr_pc = "p841" /\ get_ref = NoRef
  /\ p_T' = NoRef
  /\ pr_pc' = "dead"
  /\ UNCHANGED <<plan, control, planning, onetime, killed, server, environment,
                 mv_pc, ac_pc, mvlocals, harness>>

(* ------------------------------ the node ------------------------------ *)

Client == SendGoal \/ CancelGoal \/ Shutdown

MoveCb ==
  \/ ExecuteLoopAccept \/ MoveCbBegin \/ MoveCbNoOdom \/ MoveCbReset
  \/ MoveCbResetPlanning \/ MoveCbPrepare \/ MoveCbBadType \/ MoveCbHold
  \/ MoveCbHoldRef \/ MoveCbHoldDone \/ MoveCbCircle \/ MoveCbDriveRotate
  \/ MoveCbRotationRef \/ MoveCbRotationEmpty \/ MoveCbSeedAtState
  \/ MoveCbIndeterminate \/ MoveCbChain \/ MoveCbLoopShutdown
  \/ MoveCbReached \/ MoveCbPreempted \/ MoveCbContinue \/ MoveCbCheckRaise
  \/ MoveCbRemain \/ MoveCbSucceed

TreeChain ==
  \/ TreeChainBusy \/ TreeChainLock \/ TreeChainNoIssue
  \/ TreeChainDistantIssue \/ TreeChainImmediateIssue \/ TreeChainSeedRaise
  \/ TreeChainSelect \/ TreeChainSelectRaise \/ TreeChainUpdatePlan
  \/ TreeChainUpdateRaise \/ PlannerKilled \/ PlannerClean \/ TreeChainStuck
  \/ TreeChainCashIn \/ TreeChainUpdateTime \/ TreeChainCommit
  \/ TreeChainCommitRaise \/ TreeChainCancelled \/ TreeChainUnkill
  \/ TreeChainReturn

ActionCheck ==
  \/ ActionCheckPreempt \/ ActionCheckDone
  \/ ActionCheckInterrupted \/ ActionCheckReset \/ ActionCheckResetPlanning

Ogrid ==
  \/ OgridCbNoOp \/ OgridCbIssue \/ OgridCbClearPath \/ OgridCbNoConcerns

PublishReference == PublishRefTime \/ PublishRef \/ PublishRefRaise

\* The node without the reference timer.  publish_ref writes no field of
\* the node, so the other threads behave the same with or without it.
Next ==
  \/ Client \/ MoveCb \/ TreeChain \/ ActionCheck \/ Ogrid \/ OdomCb

Spec == Init /\ [][Next]_vars

\* The node with the reference timer and a client that neither cancels nor
\* shuts the node down: action_check then never acts, and the steps that
\* follow a reset() of action_check or a shutdown cannot occur.
NextReaders ==
  \/ SendGoal
  \/ ExecuteLoopAccept \/ MoveCbBegin \/ MoveCbNoOdom \/ MoveCbReset
  \/ MoveCbResetPlanning \/ MoveCbPrepare \/ MoveCbBadType \/ MoveCbHold
  \/ MoveCbHoldRef \/ MoveCbHoldDone \/ MoveCbCircle \/ MoveCbDriveRotate
  \/ MoveCbRotationRef \/ MoveCbRotationEmpty \/ MoveCbSeedAtState
  \/ MoveCbChain \/ MoveCbReached \/ MoveCbContinue
  \/ MoveCbRemain \/ MoveCbSucceed
  \/ TreeChainBusy \/ TreeChainLock \/ TreeChainNoIssue
  \/ TreeChainDistantIssue \/ TreeChainImmediateIssue
  \/ TreeChainSelect \/ TreeChainSelectRaise \/ TreeChainUpdatePlan
  \/ PlannerKilled \/ PlannerClean \/ TreeChainStuck
  \/ TreeChainCashIn \/ TreeChainUpdateTime \/ TreeChainCommit
  \/ TreeChainCancelled \/ TreeChainUnkill \/ TreeChainReturn
  \/ Ogrid \/ OdomCb \/ PublishReference

SpecReaders == Init /\ [][NextReaders]_vars

(* ----------------------- functions on their own ----------------------- *)

\* The functions below are applied on their own to arguments drawn from
\* bounded sets: the node is idle in its initial state, args holds the
\* arguments and ret what the call returned.  A grid is the array
\* self.ogrid, a sequence of rows of cell values; world coordinates are in
\* half pixels from the grid's origin (ogrid_cpm = 1/2, ogrid_origin = 0).

NodeUnchanged == UNCHANGED <<plan, control, planning, onetime, killed, server,
                              environment, pcs, mvlocals, p_T>>

\* self.ogrid is None
NoGrid == <<>>
\* the values of a free and of an occupied cell
CellValues == {0, 100}
\* the parameter ~ogrid_threshold (line 1041)
ogrid_threshold == 90

\* line 595, astype(np.int64) of ogrid_cpm * (p - ogrid_origin): the
\* quotient is truncated towards zero
ToPixel(p) == IF p >= 0 THEN p \div 2 ELSE -((-p) \div 2)

\* line 597, numpy indexing of an axis of length n: an index outside
\* [-n, n) raises IndexError, a negative index counts from the end
IndexError(i, n) == i < -n \/ i >= n
PyIndex(i, n) == IF i < 0 THEN i + n ELSE i

\* is_feasible, lines 583-603, for the footprint points of lines 587-592
\* (params.vps rotated by x[2] and translated to x[:2]), a sequence of
\* <<x, y>>
is_feasible(grid, points) ==
  IF grid = NoGrid THEN TRUE
  ELSE
    LET H == Len(grid)
        W == Len(grid[1])
        col(k) == ToPixel(points[k][1])
        row(k) == ToPixel(points[k][2])
        K == 1..Len(points)
    IN IF \E k \in K : IndexError(row(k), H) \/ IndexError(col(k), W)
         THEN FALSE
         ELSE \A k \in K :
                grid[PyIndex(row(k), H) + 1][PyIndex(col(k), W) + 1]
                  < ogrid_threshold

\* the grids of GridRows x GridCols cells
Grids == [1..GridRows -> [1..GridCols -> CellValues]]
\* footprints of one or two points
Footprints ==
  { <<p>> : p \in Coords \X Coords }
    \cup { <<p, q>> : p \in Coords \X Coords, q \in Coords \X Coords }

InitFeasible ==
  /\ InitOther /\ InitSelected
  /\ obj = NoRet
  /\ args \in [ogrid : Grids \cup {NoGrid}, points : Footprints]
  /\ ret = NoRet

ApplyIsFeasible ==
  /\ ret = NoRet
  /\ ret' = Returned(is_feasible(args.ogrid, args.points))
  /\ UNCHANGED <<obj, args>>
  /\ NodeUnchanged

SpecFeasible == InitFeasible /\ [][ApplyIsFeasible]_vars

(* --------------------- reevaluate_plan on its own ---------------------- *)

\* reevaluate_plan is applied to a node that follows a committed segment
\* along a corridor one cell wide: a pose is its x coordinate (in half
\* pixels), the footprint is the single point of the pose, obj holds the
\* fields reevaluate_plan and ogrid_cb read and write, args.now is
\* self.rostime().

\* params.vps: the footprint of pose x in the world frame
Footprint(x) == << <<x, 0>> >>
\* params.vps_spacing: one pixel
vps_spacing == 2
\* grids of the corridor
CorridorGrids == [1..1 -> [1..CorridorCells -> CellValues]]
\* committed segments, one sample per dt, and the goal they lead to
Segments == { <<0, 2, 4, 6>>, <<0, 2, 2, 4>> }
CorridorGoal == 6

\* the planner's get_state(t): the sample of time t, the last one beyond
\* the horizon
get_state(self, t) ==
  LET k == t \div dt
  IN IF k < Len(self.x_seq) THEN self.x_seq[k + 1]
     ELSE self.x_seq[Len(self.x_seq)]

\* np.linspace(a, b, n), lines 640-641.  A point off the half-pixel lattice
\* is rounded down, which its pixel (ToPixel, coordinates being >= 0 here)
\* does not see.
linspace(a, b, n) ==
  IF n = 1 THEN <<a>>
  ELSE [k \in 1..n |-> (a * (n - 1) + (k - 1) * (b - a)) \div (n - 1)]

\* lines 621-624: the rest of the committed segment
p_seq(self, now) ==
  LET iters_passed == (now - self.last_update_time) \div dt
  IN SubSeq(self.x_seq, iters_passed + 1, Len(self.x_seq))

\* lines 627-628: the offsets of the infeasible samples of the rest
Infeasible(self, now) ==
  { i \in 0..(Len(p_seq(self, now)) - 1) :
      ~is_feasible(self.ogrid, Footprint(p_seq(self, now)[i + 1])) }

\* an issue time one step late
IssueTimeLate(i) == (i + 1) * dt

\* line 629
IssueTime(i) == i * dt

\* a line check that finds every line clear
ClearPathAssumed(self, now) == TRUE

\* lines 637-647: every point of the line from the reference to the goal,
\* vps_spacing apart, is feasible (npoints is truncated to an integer, as
\* the numpy of the node's time did with a deprecation warning)
ClearPathFound(self, now) ==
  LET start == get_state(self, now - self.last_update_time)
      p_err == self.goal - start
      npoints == Abs(p_err) \div vps_spacing
      xline == linspace(start, self.goal, npoints)
  IN \A k \in 1..npoints : is_feasible(self.ogrid, Footprint(xline[k]))

AllKilled == [b \in Behaviors |-> TRUE]

\* reevaluate_plan, lines 613-658: the fields of self when it returns
reevaluate_plan(self, now) ==
  IF self.time_till_issue # NoTime THEN self
  ELSE IF self.last_update_time = NoTime \/ self.x_seq = <<>> THEN self
  ELSE IF Infeasible(self, now) # {}
    THEN LET i == CHOOSE i \in Infeasible(self, now) :
                    \A j \in Infeasible(self, now) : i <= j
         IN [self EXCEPT !.time_till_issue = IssueTime(i),
                         !.killed = AllKilled]
  ELSE IF self.enroute_behavior = "escape" /\ ClearPathFound(self, now)
    THEN [self EXCEPT !.time_till_issue = Inf,
                      !.move_type = "drive",
                      !.killed = AllKilled,
                      !.stuck = FALSE,
                      !.stuck_count = 0]
  ELSE [self EXCEPT !.time_till_issue = NoTime]

\* a node on a segment committed at time 0, no grid received yet
InitReevaluate ==
  /\ InitOther /\ InitSelected
  /\ obj \in [ ogrid : {NoGrid}, x_seq : Segments, last_update_time : {0},
               time_till_issue : {NoTime}, enroute_behavior : Behaviors,
               goal : {CorridorGoal}, move_type : {"drive", "skid"},
               stuck : {FALSE}, stuck_count : 0..stuck_threshold,
               killed : {[b \in Behaviors |-> FALSE]} ]
  /\ args = [now |-> 0]
  /\ ret = NoRet

\* ogrid_cb, lines 919-922: the grid is stored and the plan reevaluated
ApplyOgridCb ==
  /\ \E grid \in CorridorGrids :
       obj' = reevaluate_plan([obj EXCEPT !.ogrid = grid], args.now)
  /\ UNCHANGED <<args, ret>>
  /\ NodeUnchanged

\* time passes
Tick ==
  /\ args.now < MaxNow
  /\ args' = [now |-> args.now + dt]
  /\ UNCHANGED <<obj, ret>>
  /\ NodeUnchanged

SpecReevaluate == InitReevaluate /\ [][ApplyOgridCb \/ Tick]_vars

(* -------------------- boundary_analysis on its own --------------------- *)

\* An image is a sequence of rows of pixel values, 0 for a clear and 255
\* for an occupied pixel; a pixel is <<row, col>> and a point, as
\* boundary_analysis takes seed and goal, is <<x, y>> = <<col, row>>, all
\* counted from 0.

Pixels(img) == (0..(Len(img) - 1)) \X (0..(Len(img[1]) - 1))

\* the indices a[lo:hi] takes of an axis of length n: a negative bound
\* counts from the end, a bound beyond either end is the end
Slice(lo, hi, n) ==
  LET bound(i) == IF i < 0 THEN (IF i + n < 0 THEN 0 ELSE i + n)
                  ELSE (IF i > n THEN n ELSE i)
  IN bound(lo)..(bound(hi) - 1)
At(img, px) == img[px[1] + 1][px[2] + 1]

\* the pixels that share an edge (cv2.floodFill's default connectivity, 4)
Adjacent(p, q) == Abs(p[1] - q[1]) + Abs(p[2] - q[2]) = 1

\* the pixels of value v that share an edge with a pixel of T
Spread(img, v, T) ==
  { q \in Pixels(img) : At(img, q) = v /\ \E p \in T : Adjacent(p, q) }

\* the pixels of S and those of value v that Adjacent joins to S (T is S,
\* enumerated once for the round)
RECURSIVE Grow(_, _, _)
Grow(img, v, S) ==
  CHOOSE R \in { IF Spread(img, v, T) \subseteq T THEN T
                 ELSE Grow(img, v, T \cup Spread(img, v, T)) : T \in { {q : q \in S} } } :
    TRUE

\* the region cv2.floodFill(img, mask, pt, newVal) repaints: the pixels
\* joined to pt that have the value of pt (lines 775, 782)
Region(img, pt) == Grow(img, At(img, <<pt[2], pt[1]>>), {<<pt[2], pt[1]>>})

\* img with the pixels of R set to newVal
Paint(img, R, newVal) ==
  [r \in 1..Len(img) |->
     [c \in 1..Len(img[1]) |->
        IF <<r - 1, c - 1>> \in R THEN newVal ELSE img[r][c]]]

\* the image after cv2.floodFill(img, mask, pt, newVal)
floodFill(img, pt, newVal) == Paint(img, Region(img, pt), newVal)

\* lines 780, 783: v * np.equal(img, v)
Thresh(img, v) ==
  [r \in 1..Len(img) |->
     [c \in 1..Len(img[1]) |-> IF img[r][c] = v THEN v ELSE 0]]

\* line 60, get_hood: the values of img[row-1:row+2, col-1:col+2]
get_hood(img, row, col) ==
  { At(img, <<r, c>>) : r \in Slice(row - 1, row + 2, Len(img)),
                        c \in Slice(col - 1, col + 2, Len(img[1])) }

\* lines 786-805: the pixels of the buffered border, in the order of cands:
\* left, right, top, bottom
BorderPixels(img) ==
  LET H == Len(img)
      W == Len(img[1])
  IN [k \in 1..(H - 2) |-> <<k, 1>>]
       \o [k \in 1..(H - 2) |-> <<k, W - 2>>]
       \o [k \in 1..(W - 4) |-> <<1, k + 1>>]
       \o [k \in 1..(W - 4) |-> <<H - 2, k + 1>>]

\* lines 795-812: the occupied border pixels of img whose neighbourhood in
\* flood_seed_thresh has both a pixel of the seed's region and a 0
Boundary(img, flood_seed_thresh) ==
  LET Keep(px) ==
        /\ At(img, px) = 255
        /\ 69 \in get_hood(flood_seed_thresh, px[1], px[2])
        /\ 0 \in get_hood(flood_seed_thresh, px[1], px[2])
  IN SelectSeq(BorderPixels(img), Keep)

\* the occupancy images of ImgSize x ImgSize pixels whose occupied pixels
\* are among Occupiable
Occupiable == { <<0, 1>>, <<1, 0>>, <<1, 1>>, <<1, 2>>, <<2, 1>>, <<2, 2>>,
                <<2, 3>>, <<3, 2>> }
Images ==
  { [r \in 1..ImgSize |->
       [c \in 1..ImgSize |-> IF <<r - 1, c - 1>> \in occ THEN 255 ELSE 0]]
    : occ \in SUBSET Occupiable }
SeedPoints == { <<0, 0>>, <<2, 2>> }
GoalPoints == { <<ImgSize - 1, ImgSize - 1>>, <<2, 1>> }

\* boundary_analysis is called: obj holds its local image, by the line it
\* was assigned at
InitBoundary ==
  /\ InitOther /\ InitSelected
  /\ obj = [line |-> 770, image |-> <<>>]
  /\ args \in [img : Images, seed : SeedPoints, goal : GoalPoints]
  /\ ret = NoRet

\* lines 774-777: flood from the goal; done if the seed is reached
BoundaryFloodGoal ==
  /\ obj.line = 770
  /\ LET flood_goal == floodFill(args.img, args.goal, 96)
     IN /\ obj' = [line |-> 775, image |-> flood_goal]
        /\ ret' = IF At(flood_goal, <<args.seed[2], args.seed[1]>>) = 96
                    THEN Returned(<<>>) ELSE NoRet
  /\ UNCHANGED args
  /\ NodeUnchanged

\* lines 780-783: flood what the goal did not reach from the seed
BoundaryFloodSeed ==
  /\ obj.line = 775 /\ ret = NoRet
  /\ LET flood_seed == floodFill(Thresh(obj.image, 96), args.seed, 69)
     IN obj' = [line |-> 783, image |-> Thresh(flood_seed, 69)]
  /\ UNCHANGED <<args, ret>>
  /\ NodeUnchanged

\* lines 786-812: the boundary points among the border's occupied pixels
BoundaryCandidates ==
  /\ obj.line = 783 /\ ret = NoRet
  /\ obj' = [line |-> 812, image |-> obj.image]
  /\ ret' = Returned(Boundary(args.img, obj.image))
  /\ UNCHANGED args
  /\ NodeUnchanged

boundary_analysis ==
  BoundaryFloodGoal \/ BoundaryFloodSeed \/ BoundaryCandidates

SpecBoundary == InitBoundary /\ [][boundary_analysis]_vars

(* --------------------- select_behavior on its own ---------------------- *)

\* select_behavior is called: the four fields it reads have any of their
\* values
InitSelect ==
  /\ InitOther
  /\ stuck \in BOOLEAN
  /\ move_type \in MoveTypes \cup {"none"}
  /\ goal \in Poses \cup {NoPose}
  /\ next_seed \in Poses \cup {NoPose}
  /\ obj = NoRet /\ args = NoRet /\ ret = NoRet

\* lines 390-415: args records the distance of line 400, ret what is
\* returned or raised
ApplySelectBehavior ==
  /\ ret = NoRet
  /\ \E dist \in SeedDists :
       /\ args' = [dist |-> dist]
       /\ ret' = Returned(select_behavior(dist))
  /\ UNCHANGED obj
  /\ NodeUnchanged

SpecSelect == InitSelect /\ [][ApplySelectBehavior]_vars

(* -------------------- select_exploration on its own -------------------- *)

\* select_exploration is applied to args: the behavior, the dilated image
\* occ_img_dial of lines 436-441 (NoGrid for self.ogrid None), next_seed and
\* goal as <<x, y>> in half pixels from the grid's origin, the pixel bounds
\* <<pmin, pmax>> of behavior.gen_ss(next_seed, goal), and step.  obj holds
\* the locals by the line the function is at; ret is what it returns, or the
\* exception it raises.

\* what select_exploration returns, or raises
Triple(goal_bias, ss, guide) ==
  Returned([raised |-> "no", goal_bias |-> goal_bias, ss |-> ss,
            guide |-> guide])
Raised(exception) == Returned([raised |-> exception])
\* behavior.gen_ss(next_seed, goal, push), and the guide at the goal
gen_ss(behavior_name, push, npush) ==
  [of |-> behavior_name, push |-> push, boat_length |-> npush > 0]
AtGoal == [at |-> "goal", px |-> <<>>]

\* the point p of an image img: inside it, and the value numpy indexing
\* img[p[2], p[1]] gives
Inside(img, p) ==
  /\ img # <<>>
  /\ p[1] \in 0..(Len(img[1]) - 1) /\ p[2] \in 0..(Len(img) - 1)
Indexed(img, p) ==
  img[PyIndex(p[2], Len(img)) + 1][PyIndex(p[1], Len(img[1])) + 1]

\* occ_img_dial[y[1]:y[2], x[1]:x[2]], lines 467 and 530
Crop(img, x, y) ==
  LET rows == Slice(y[1], y[2], Len(img))
      cols == Slice(x[1], x[2], Len(img[1]))
      r0 == CHOOSE r \in rows : r - 1 \notin rows
      c0 == CHOOSE c \in cols : c - 1 \notin cols
  IN [r \in 1..Cardinality(rows) |->
        [c \in 1..Cardinality(cols) |-> img[r0 + r][c0 + c]]]

\* boundary_analysis(img, seed, goal), lines 761-812, as a function: the
\* list it returns, or the exception of cv2.floodFill for a point outside
\* the image or of an index beyond an axis
BoundaryPoints(img, seed_px, goal_px) ==
  IF ~Inside(img, goal_px) THEN [raised |-> "cv2.error", bpts |-> <<>>]
  ELSE IF \/ IndexError(seed_px[2], Len(img))
          \/ IndexError(seed_px[1], Len(img[1]))
    THEN [raised |-> "IndexError", bpts |-> <<>>]
  ELSE IF Indexed(floodFill(img, goal_px, 96), seed_px) = 96
    THEN [raised |-> "no", bpts |-> <<>>]
  ELSE IF ~Inside(img, seed_px) THEN [raised |-> "cv2.error", bpts |-> <<>>]
  ELSE IF Len(img) < 2 \/ Len(img[1]) < 2
    THEN [raised |-> "IndexError", bpts |-> <<>>]
  ELSE [raised |-> "no",
        bpts |-> Boundary(img,
                   Thresh(floodFill(Thresh(floodFill(img, goal_px, 96), 96),
                                    seed_px, 69), 69))]

\* select_exploration is called: the images are the clear one and those of
\* a few walls, the points lie on and off the grid, the bounds are the whole
\* grid, its inside and one pixel beyond it
InitExplore ==
  /\ InitOther /\ InitSelected
  /\ obj = [line |-> 418]
  /\ LET walls == { {},
                    { <<0, 1>>, <<1, 0>> },
                    { <<0, 1>>, <<1, 0>>, <<1, 1>> },
                    { <<1, 2>>, <<2, 2>>, <<3, 2>> },
                    { <<ImgSize - 2, ImgSize - 1>>,
                      <<ImgSize - 2, ImgSize - 2>>,
                      <<ImgSize - 1, ImgSize - 2>> } }
         images == { [r \in 1..ImgSize |->
                        [c \in 1..ImgSize |->
                           IF <<r - 1, c - 1>> \in occ THEN 255 ELSE 0]]
                     : occ \in walls }
         points == { <<1, 1>>, <<3, 3>>, <<7, 7>>,
                     <<2 * ImgSize - 1, 2 * ImgSize - 1>>,
                     <<-3, 1>>, <<1, 2 * ImgSize + 1>> }
         bounds == { << <<0, 0>>, <<ImgSize, ImgSize>> >>,
                     << <<1, 1>>, <<ImgSize - 1, ImgSize - 1>> >>,
                     << <<-1, -1>>, <<ImgSize + 1, ImgSize + 1>> >> }
     IN args \in [behavior : Behaviors, img : images \cup {NoGrid},
                  seed : points, goal : points, bounds : bounds,
                  step : {0, 1}]
  /\ ret = NoRet

\* lines 424-469 and 555-557: the escape case, the test of the grid, the
\* pixels of seed and goal, the bounds check and the initializations
ExploreEnter ==
  /\ obj.line = 418 /\ ret = NoRet
  /\ LET seed_px == <<ToPixel(args.seed[1]), ToPixel(args.seed[2])>>
         goal_px == <<ToPixel(args.goal[1]), ToPixel(args.goal[2])>>
         pmin == args.bounds[1]
         pmax == args.bounds[2]
         H == Len(args.img)
         W == Len(args.img[1])
     IN IF args.behavior = "escape"
          THEN /\ ret' = Triple(<<"0">>, gen_ss("escape", <<0, 0, 0, 0>>, 0),
                              IF args.seed = args.goal
                                THEN [at |-> "nan", px |-> <<>>]
                              ELSE AtGoal)
               /\ obj' = [line |-> 430]
        ELSE IF args.img = NoGrid
          THEN /\ obj' = [line |-> 556, gs |-> AtGoal]
               /\ UNCHANGED ret
        ELSE IF \/ IndexError(seed_px[2], H) \/ IndexError(seed_px[1], W)
                \/ IndexError(goal_px[2], H) \/ IndexError(goal_px[1], W)
          THEN /\ ret' = Triple(<<"0">>, gen_ss("escape", <<0, 0, 0, 0>>, 0),
                              AtGoal)
               /\ obj' = [line |-> 459]
        ELSE /\ obj' = [line |-> 472, while_break_flag |-> FALSE,
                        push |-> <<0, 0, 0, 0>>, npush |-> 0, gs |-> AtGoal,
                        last_offsets |-> pmin,
                        ss_img |-> Crop(args.img, <<pmin[1], pmax[1]>>,
                                        <<pmin[2], pmax[2]>>),
                        ss_goal |-> <<goal_px[1] - pmin[1],
                                      goal_px[2] - pmin[2]>>,
                        ss_seed |-> <<seed_px[1] - pmin[1],
                                      seed_px[2] - pmin[2]>>,
                        bpts |-> <<>>,
                        flags |-> <<FALSE, FALSE, FALSE, FALSE>>]
             /\ UNCHANGED ret
  /\ UNCHANGED args
  /\ NodeUnchanged

\* lines 472-493: the test of the loop, boundary_analysis, and the flags
ExploreAnalyse ==
  /\ obj.line = 472 /\ ret = NoRet
  /\ IF (\E k \in 1..4 : obj.push[k] > Len(args.img)) \/ obj.while_break_flag
       THEN obj' = [obj EXCEPT !.line = 544] /\ UNCHANGED ret
     ELSE LET found == BoundaryPoints(obj.ss_img, obj.ss_seed, obj.ss_goal)
          IN IF found.raised # "no"
               THEN /\ ret' = Raised(found.raised)
                    /\ obj' = [obj EXCEPT !.line = 477]
             ELSE IF found.bpts = <<>>
               THEN obj' = [obj EXCEPT !.line = 544] /\ UNCHANGED ret
             ELSE /\ obj' = [obj EXCEPT
                               !.line = 495, !.bpts = found.bpts,
                               !.flags = <<FALSE, FALSE, FALSE, FALSE>>]
                  /\ UNCHANGED ret
  /\ UNCHANGED args
  /\ NodeUnchanged

\* lines 495-538: the body of the for loop for the next boundary point,
\* row_max and col_max being those of the image boundary_analysis was given;
\* npush is counted up to MaxNpush
ExplorePush ==
  /\ obj.line = 495 /\ ret = NoRet /\ obj.bpts # <<>>
  /\ LET row == Head(obj.bpts)[1]
         col == Head(obj.bpts)[2]
         row_max == Len(obj.ss_img) - 2
         col_max == Len(obj.ss_img[1]) - 2
         side == col = 1 \/ col = col_max
         flags == << obj.flags[1] \/ col = 1,
                     obj.flags[2] \/ (col # 1 /\ col = col_max),
                     obj.flags[3] \/ row = 1,
                     obj.flags[4] \/ (row # 1 /\ row = row_max) >>
         push == [k \in 1..4 |->
                    obj.push[k] + (IF flags[k] THEN args.step ELSE 0)]
         pushes == obj.npush + Cardinality({ k \in 1..4 : flags[k] })
         npush == IF pushes > MaxNpush THEN MaxNpush ELSE pushes
         pmin == args.bounds[1]
         pmax == args.bounds[2]
         seed_px == <<ToPixel(args.seed[1]), ToPixel(args.seed[2])>>
         goal_px == <<ToPixel(args.goal[1]), ToPixel(args.goal[2])>>
         offset_x == <<pmin[1] - push[1], pmax[1] + push[2]>>
         offset_y == <<pmin[2] - push[3], pmax[2] + push[4]>>
         ss_img == Crop(args.img, offset_x, offset_y)
         ss_goal == <<goal_px[1] - offset_x[1], goal_px[2] - offset_y[1]>>
         ss_seed == <<seed_px[1] - offset_x[1], seed_px[2] - offset_y[1]>>
         moved == [obj EXCEPT !.flags = flags, !.push = push,
                              !.npush = npush, !.ss_img = ss_img,
                              !.ss_goal = ss_goal, !.ss_seed = ss_seed,
                              !.bpts = Tail(obj.bpts)]
     IN IF ~Inside(ss_img, ss_goal)
          THEN /\ ret' = Raised("cv2.error")
               /\ obj' = [moved EXCEPT !.line = 534]
        ELSE IF \/ IndexError(ss_seed[2], Len(ss_img))
                \/ IndexError(ss_seed[1], Len(ss_img[1]))
          THEN /\ ret' = Raised("IndexError")
               /\ obj' = [moved EXCEPT !.line = 535]
        ELSE IF Indexed(floodFill(ss_img, ss_goal, 69), ss_seed) = 69
          THEN /\ obj' = [moved EXCEPT
                            !.line = 541, !.while_break_flag = TRUE,
                            !.gs = [at |-> "bpt",
                                    px |-> <<col + obj.last_offsets[1],
                                             row + obj.last_offsets[2]>>]]
               /\ UNCHANGED ret
        ELSE /\ obj' = [moved EXCEPT
                          !.line = IF Tail(obj.bpts) = <<>> THEN 541 ELSE 495]
             /\ UNCHANGED ret
  /\ UNCHANGED args
  /\ NodeUnchanged

\* line 541: the offsets of the round are remembered
ExploreRemember ==
  /\ obj.line = 541 /\ ret = NoRet
  /\ obj' = [obj EXCEPT
               !.line = 472,
               !.last_offsets = <<args.bounds[1][1] - obj.push[1],
                                  args.bounds[1][2] - obj.push[3]>>]
  /\ UNCHANGED <<args, ret>>
  /\ NodeUnchanged

\* lines 544-572: sample space, bias and the triple of the behavior; ss is
\* bound only by lines 444 and 547
ExploreReturn ==
  /\ obj.line \in {544, 556} /\ ret = NoRet
  /\ LET b == IF obj.ss_img = <<>> \/ obj.ss_img[1] = <<>> THEN "1"
              ELSE "free_ratio"
     IN ret' = IF obj.line = 556 THEN Raised("UnboundLocalError")
               ELSE Triple(IF args.behavior = "boat" /\ args.seed = args.goal
                             THEN <<"1", "1", "1", "0.1", "0.1", "0">>
                           ELSE IF args.behavior = "boat"
                             THEN <<b, b, "1", "0", "0", "1">>
                           ELSE <<b, b, "0", "0", "0.5", "0">>,
                           gen_ss(args.behavior, obj.push, obj.npush),
                           obj.gs)
  /\ obj' = [obj EXCEPT !.line = 572]
  /\ UNCHANGED args
  /\ NodeUnchanged

SelectExploration ==
  \/ ExploreEnter \/ ExploreAnalyse \/ ExplorePush \/ ExploreRemember
  \/ ExploreReturn

SpecExplore == InitExplore /\ [][SelectExploration]_vars

\* the function goes on while it has not returned
SpecExploreRuns == SpecExplore /\ WF_vars(SelectExploration)

(* ------------------------------ properties ----------------------------- *)

\* the execute thread takes a step of move_cb or tree_chain
MoveStep == mv_pc # "idle" /\ mv_pc' # mv_pc

\* the execute thread ends the request
MoveEnds == mv_pc # "idle" /\ mv_pc' = "idle"

\* the failure code the order odom, move_type, patience gives a request of
\* type mt checked with vehicle state s; "none" when it passes all three
FailureCode(s, mt) ==
  IF s = NoPose THEN "odom"
  ELSE IF mt \notin {"hold", "drive", "skid", "circle"} THEN "move_type"
  ELSE IF mt = "circle" THEN "patience"
  ELSE "none"

\* C1: every Move request that has no vehicle state, an unknown move_type or
\* the move_type circle ends with the failure code the order odom, move_type,
\* patience gives and without a call of tree_chain, and a request ends with
\* one of the three codes only in its case.
C1_FailureCodeOrder ==
  [][ MoveEnds =>
        LET code == IF msg = NoReq THEN "none"
                    ELSE FailureCode(state, msg.move_type)
        IN  /\ code # "none" => (result' = code /\ ~called_tc)
            /\ result' \in {"odom", "move_type", "patience"} => result' = code
    ]_vars

\* C2: no step move_cb takes for a request it rejects (no vehicle state, an
\* unknown move_type, or circle) changes goal, get_ref, get_eff, x_seq,
\* u_seq, tree, last_update_time, move_type, stuck, stuck_count, next_seed,
\* next_runtime or time_till_issue.
C2_RejectionMutatesNothing ==
  [][ ( /\ MoveStep
        /\ msg # NoReq
        /\ FailureCode(state, msg.move_type) # "none" )
      => UNCHANGED <<goal, get_ref, get_eff, x_seq, u_seq, tree,
                     last_update_time, move_type, stuck, stuck_count,
                     next_seed, next_runtime, time_till_issue>>
    ]_vars

\* C3: action_check begins reset() only while the execute thread is outside
\* move_cb.
C3_ResetOnlyWhenDone ==
  [][ (ac_pc = "a679" /\ ac_pc' = "a121") => mv_pc = "idle" ]_vars

\* C4: a call of tree_chain made while busy is true returns to move_cb at
\* once, calls update_plan on no planner and changes no field of the node;
\* and whenever update_plan is in progress busy is true, so no second
\* update can start.
C4_BusyGuard ==
  [][ /\ (mv_pc = "t295" /\ busy /\ MoveStep) =>
            /\ mv_pc' = "m258" /\ upd' = "none"
            /\ UNCHANGED <<plan, control, planning, onetime, killed>>
      /\ mv_pc' = "t332r" => busy'
    ]_vars

\* C4, the case: the guard has just turned a call away
C4_GuardFired == mv_pc = "m258" /\ busy

\* C5: whenever publish_ref publishes, the last_update_time it read at
\* line 837 and the get_ref and get_eff it evaluates at lines 841-845 belong
\* to one plan segment.
C5_ReaderSeesOneSegment ==
  [][ (pr_pc = "p841" /\ pr_pc' = "idle")
      => Cardinality({ r.id : r \in { f \in {p_T, get_ref, get_eff} :
                                          f.k = "plan" } }) <= 1
    ]_vars

\* C6: whenever tree_chain calls update_plan on the selected behavior's
\* planner, that planner is unkilled.
C6_UnkilledAtUpdate ==
  [][ (mv_pc = "t332" /\ mv_pc' = "t332r") => ~killed[behavior] ]_vars

\* C7: at the moment a call of tree_chain returns, every planner is unkilled.
C7_UnkilledAtReturn ==
  [][ (mv_pc \in {"t295", "t384"} /\ mv_pc' = "m258")
      => \A b \in Behaviors : ~killed'[b] ]_vars

C9_SuccessOnlyWithinTol ==
  [][ (mv_pc # "m278" /\ mv_pc' = "m278")
      => (goal # NoPose /\ WithinTol(goal, state)) ]_vars

\* C10: once a hold has succeeded and until the next Move request arrives,
\* the reference stays the constant of the hold: get_ref returns the same
\* goal and get_eff is the zero effort after every step.
C10_HoldReferenceStays ==
  [][ ( /\ mv_pc = "idle" /\ as_next = NoReq /\ nsent' = nsent
        /\ get_ref = HoldRef /\ get_eff = ZeroEff /\ goal # NoPose )
      => (get_ref' = HoldRef /\ get_eff' = ZeroEff /\ goal' = goal) ]_vars

(* ------------------------- the chain iteration ------------------------ *)

C14_ImmediateIssueEscapes ==
  [][ /\ (mv_pc = "t302" /\ MoveStep /\ mv_pc' # "idle"
            /\ time_till_issue # NoTime
            /\ time_till_issue <= 2 * basic_duration)
           => /\ mv_pc' = "t332" /\ behavior' = "escape"
              /\ 2 * next_runtime' = time_till_issue
              /\ expl' = "immediate"
      /\ (mv_pc = "t332" /\ mv_pc' = "t332r" /\ expl = "immediate")
           => /\ upd' = "escape"
              /\ time_till_issue # NoTime
              /\ 2 * next_runtime = time_till_issue ]_vars

\* C19: on a drive request move_cb makes the rotation pre-move if and only if
\* the heading to the goal is outside the cone of pointshoot_tol and the goal
\* is farther than free_radius; otherwise the chain is seeded at the current
\* state with runtime basic_duration and no rotation is simulated.
C19_RotationIffOffAndFar ==
  [][ (mv_pc = "m191" /\ MoveStep /\ move_type = "drive" /\ goal # NoPose)
        => /\ (mv_pc' = "m228")
                <=> (h_goal' = "outside" /\ Dist(goal, state) > free_radius)
           /\ mv_pc' # "m228"
                => /\ next_seed' = state /\ next_runtime' = basic_duration
                   /\ x_seq_rot' = NoPose
                   /\ UNCHANGED <<get_ref, get_eff, last_update_time,
                                  move_type>> ]_vars

\* a drive to a near goal with the heading outside the cone starts the chain
\* at the state, without rotation
C19_NearGoalNotRotated ==
  /\ mv_pc = "m253" /\ h_goal = "outside" /\ move_type = "drive"
  /\ goal # NoPose /\ next_seed # NoPose
  /\ Dist(goal, next_seed) <= free_radius
  /\ next_runtime = basic_duration /\ get_ref = NoRef

\* C20: stuck is latched by the clean update that is the stuck_threshold-th
\* consecutive degenerate one (stuck_count being the number of consecutive
\* degenerate clean updates before it); a clean update that is not
\* degenerate clears stuck and the counter.
C20_LatchAtThreshold ==
  [][ (mv_pc = "t339" /\ mv_pc' = "t358")
        => /\ (OddlySmall /\ stuck_count + 1 = stuck_threshold) => stuck'
           /\ ~OddlySmall => (~stuck' /\ stuck_count' = 0) ]_vars

(* ------------------------------ is_feasible ---------------------------- *)

\* C16: with a grid, is_feasible returns false whenever a footprint point
\* maps to a pixel index outside the grid (column outside [0, width) or row
\* outside [0, height), negative indices included), and otherwise true iff
\* all the cells read are below the threshold; with no grid it returns true.
\* (It never raises: ret is always a boolean.)
C16_OutsideIsInfeasible ==
  ret # NoRet =>
    LET grid == args.ogrid
        points == args.points
        K == 1..Len(points)
        col(k) == ToPixel(points[k][1])
        row(k) == ToPixel(points[k][2])
        outside(k) == \/ col(k) < 0 \/ col(k) >= Len(grid[1])
                      \/ row(k) < 0 \/ row(k) >= Len(grid)
    IN IF grid = NoGrid THEN ret = Returned(TRUE)
       ELSE IF \E k \in K : outside(k) THEN ret = Returned(FALSE)
       ELSE ret = Returned(\A k \in K :
                             grid[row(k) + 1][col(k) + 1] < ogrid_threshold)

(* ---------------------------- reevaluate_plan -------------------------- *)

\* the committed sample x_seq[floor((tau + now - t_update)/dt)] exists and
\* is infeasible under the grid of self
SampleInfeasibleAt(self, now, tau) ==
  LET k == (tau + now - self.last_update_time) \div dt
  IN /\ k < Len(self.x_seq)
     /\ ~is_feasible(self.ogrid, Footprint(self.x_seq[k + 1]))

\* C11: whenever reevaluate_plan has returned with a finite time_till_issue
\* = tau, recorded in that call or pending before it, the committed sample
\* x_seq[floor((tau + now - t_update)/dt)] is infeasible under the current
\* grid.
C11_IssueSampleInfeasible ==
  (obj.time_till_issue # NoTime /\ obj.time_till_issue < Inf)
    => SampleInfeasibleAt(obj, args.now, obj.time_till_issue)

C17_EmptyIffFloodReaches ==
  ret # NoRet =>
    ( (ret = Returned(<<>>))
        <=> (<<args.seed[2], args.seed[1]>> \in Region(args.img, args.goal)) )


\* C18: select_behavior, called with a goal and a next_seed or while stuck,
\* returns escape when stuck; else for drive boat when the distance from
\* next_seed to goal is below free_radius and car otherwise; else for skid
\* boat; for any other move_type it raises the configuration error; and it
\* changes no field of the node.
C18_SelectBehaviorTable ==
  [][ ( /\ ret = NoRet /\ ret' # NoRet
        /\ stuck \/ (goal \in Poses /\ next_seed \in Poses) )
      => /\ ret' = Returned(
                     IF stuck THEN "escape"
                     ELSE CASE move_type = "drive" ->
                                 (IF args'.dist < free_radius THEN "boat"
                                  ELSE "car")
                            [] move_type = "skid" -> "boat"
                            [] OTHER -> "ValueError")
         /\ UNCHANGED <<plan, control, planning, onetime, killed>>
    ]_vars

\* C18, the case: a drive close to its goal, stuck, was given escape
C18_StuckDriveEscapes ==
  /\ ret = Returned("escape") /\ stuck /\ move_type = "drive"
  /\ args # NoRet /\ args.dist < free_radius

\* C21: every rotation pre-move, one that became infeasible mid-sweep and
\* switched move_type to skid included, goes on to the chaining loop with
\* next_seed at the last state of the trajectory rotation_move returned,
\* whatever the length of the sweep was when it failed.
C21_RotationSeedsChain ==
  [][ (mv_pc = "m228" /\ MoveStep)
      => /\ x_seq_rot # NoPose
         /\ mv_pc' = "m253"
         /\ next_seed' = x_seq_rot
    ]_vars

\* C22: whenever tree_chain calls select_behavior and select_exploration
\* (lines 308-309, 315-316), stuck is true or move_type is drive or skid,
\* and the behavior select_behavior gives is one of car, boat, escape.
C22_SelectionDetermined ==
  [][ (mv_pc = "t308" /\ MoveStep)
      => /\ stuck \/ move_type \in {"drive", "skid"}
         /\ \A dist \in SeedDists : select_behavior(dist) \in Behaviors
    ]_vars

\* C23: select_exploration, given a grid and a behavior other than escape,
\* returns the fallback (goal_bias 0, escape.gen_ss(seed, goal), guide =
\* goal), without entering the expansion, whenever the pixel of next_seed or
\* of goal is outside the grid, negative pixel coordinates included.
C23_OutsideFallsBack ==
  ( /\ obj.line # 418
    /\ args.behavior # "escape" /\ args.img # NoGrid
    /\ \/ ~Inside(args.img, <<ToPixel(args.seed[1]), ToPixel(args.seed[2])>>)
       \/ ~Inside(args.img, <<ToPixel(args.goal[1]), ToPixel(args.goal[2])>>) )
  => /\ obj.line = 459
     /\ ret = Triple(<<"0">>, gen_ss("escape", <<0, 0, 0, 0>>, 0), AtGoal)

\* C24: the expansion loop of select_exploration ends for every image, seed,
\* goal, bounds and step, the step 0 included: the function returns (or
\* raises).
C24_ExpansionTerminates == <>(ret # NoRet)

\* C30: without an occupancy grid select_exploration returns, for car and
\* for boat, a triple of a goal_bias built from b = 1, a sample space and
\* the goal as guide.
C30_NoGridStillReturns ==
  (ret # NoRet /\ args.img = NoGrid /\ args.behavior \in {"car", "boat"})
  => /\ ret[1].raised = "no"
     /\ ret[1].guide = AtGoal
     /\ \E k \in DOMAIN ret[1].goal_bias : ret[1].goal_bias[k] = "1"

\* C25: a grid callback that finds an issue pending (time_till_issue not
\* None, the +infinity sentinel included) or no plan committed
\* (last_update_time or x_seq None) changes no field of the plan, of the
\* behavior control or of the planning control and kills no planner; and a
\* pending time_till_issue changes only by the commit of a clean update in
\* tree_chain or by reset.
C25_PendingIssueFrame ==
  [][ /\ (Ogrid /\ NothingToCheck)
         => UNCHANGED <<plan, control, planning, killed>>
      /\ (time_till_issue # NoTime /\ time_till_issue' # time_till_issue)
         => \/ mv_pc = "t362" /\ mv_pc' = "t380" /\ clean_update = "True"
            \/ mv_pc = "m121" /\ mv_pc' = "m154"
            \/ ac_pc = "a121" /\ ac_pc' = "idle"
    ]_vars

\* C25, the case: the sentinel is pending on a committed plan while a grid
\* has been received and move_cb runs
C25_SentinelPending ==
  /\ time_till_issue = Inf /\ ogrid = "grid"
  /\ x_seq # NoRef /\ last_update_time # NoRef
  /\ mv_pc # "idle"

\* C26: an issue recorded in time_till_issue (a finite time) is cleared by
\* the commit of line 362 only when the committing iteration of tree_chain
\* started after the issue was recorded, that is, when the tests of lines
\* 302-319 of that iteration already found this issue.
C26_ClearedOnlyByLaterIteration ==
  [][ (mv_pc = "t362" /\ mv_pc' = "t380" /\ time_till_issue \notin {NoTime, Inf})
      => tti_seen = time_till_issue ]_vars

\* C29: in every reachable state, the intermediate states inside reset,
\* move_cb and the commit of tree_chain included, get_ref not None implies
\* last_update_time not None.
C29_RefHasUpdateTime ==
  get_ref # NoRef => last_update_time # NoRef

\* C27: whenever move_cb ends, the node has reported one result of its own
\* (succeeded, preempted, or aborted with one of the codes of move_cb) and
\* done is true: no path leaves move_cb with done false and no result.
C27_MoveEndsDoneWithResult ==
  [][ (mv_pc # "idle" /\ mv_pc' = "idle")
      => /\ done'
         /\ result' \in {"succeeded", "preempted", "odom", "move_type", "patience"} ]_vars

\* C28: busy is released on every path out of tree_chain, so busy is false
\* whenever move_cb is not between line 299 and line 384 of a tree_chain
\* call.
C28_BusyOnlyInsideTreeChain ==
  busy => mv_pc \in {"t302", "t308", "t332", "t332r", "t339", "t358", "t361",
                     "t362", "t380", "t384"}

\* C31: a drive or skid move whose preemption is flagged (preempted true,
\* action_check waiting at lines 676-677 for the move to finish) does not run
\* the success epilogue of lines 278-284 while the node is running: it
\* neither installs the constant goal reference nor reports 'succeeded'.
C31_PreemptedNeverSucceeds ==
  [][ (/\ mv_pc \in {"m278", "m280"} /\ mv_pc' \in {"m280", "idle"}
       /\ mv_pc' # mv_pc /\ ~shutdown)
      => ~(preempted /\ ac_pc = "a676") ]_vars
====
